---- MODULE Spec2Model ----
(***************************************************************************)
(* QueryBuilder of src/builder.go.  A QueryBuilder is a Go value holding a *)
(* slice header (queries) and a map reference (variables).  Slices share   *)
(* their backing array and maps are shared by reference, so the model      *)
(* keeps a heap of backing arrays and a heap of maps; the builders the     *)
(* caller holds are the values of the caller's variables (Slots).          *)
(***************************************************************************)
EXTENDS Integers, Sequences, FiniteSets, TLC

\* ------------------------------------------------------------------ bounds
\* number of builder-method calls in one run
MaxOps == 4
\* number of calls in one run of the Query chains (SpecChain)
MaxChainOps == 5

\* ------------------------------------------------------------------ inputs
\* the caller's builder variables: the builder the caller chains calls on
\* (builder = builder.Query(...)) and a derived builder kept beside it
\* (snapshot = builder.Query(...))
Slots == {"builder", "snapshot"}

\* query texts, as sequences of characters
TextP == <<"p", "$", "1">>
TextA == <<"a", "(", "$", "i", ")">>
TextB == <<"b", "(", "$", "i", ",", "$", "w", ")">>
TextD == <<"d", "(", "$", "w", "$", "w", ")">>
Texts == {TextP, TextA, TextB, TextD}

\* binding targets (opaque to the builder)
Bindings == {"U", "P"}

\* arguments of Query: TextA is bound to either target
QueryArgs == {<<TextP, "P">>, <<TextA, "U">>, <<TextA, "P">>, <<TextB, "U">>, <<TextD, "P">>}

\* variable names and values
NameI == <<"i">>
NameW == <<"w">>
Names == {NameI, NameW}
Values == {"null", "1"}

\* arguments of Remove and RemoveQuery: a text and the variadic extra texts
RemoveArgs == {<<TextA, <<>>>>, <<TextP, <<>>>>, <<TextP, <<TextA>>>>, <<TextB, <<TextD>>>>}

\* arguments of RemoveVariable: a name and the variadic extra names
RemoveVariableArgs == {<<NameI, <<>>>>, <<NameW, <<>>>>, <<NameI, <<NameW>>>>}

\* argument maps of Variables
ArgMaps == {[k \in {} |-> "null"],
            [k \in {NameI} |-> "1"],
            [k \in {NameI, NameW} |-> IF k = NameI THEN "null" ELSE "1"]}

\* ------------------------------------------------------------------ heap
nil == 0
ArrIds == 1..(Cardinality(Slots) + 1)
MapIds == 1..(Cardinality(Slots) + 1)

VARIABLES
    b,        \* Slots -> QueryBuilder value
    arrays,   \* ArrIds -> backing array of queryBuilderItem (length = capacity)
    maps,     \* MapIds -> contents of a map[string]interface{}
    last,     \* the last call: [op, src, dst, arg, out]
    nops      \* number of calls made

vars == <<b, arrays, maps, last, nops>>

\* the zero value of queryBuilderItem: content of array cells never written
zeroItem == [query |-> <<>>, binding |-> "nil", requiredVars |-> <<>>]

emptyMap == [k \in {} |-> "null"]

\* the nil slice
nilSlice == [ptr |-> nil, len |-> 0, cap |-> 0]

\* QueryBuilder{}: the zero value (nil slice, nil map)
QueryBuilder == [queries |-> nilSlice, variables |-> nil]

\* smallest id no caller variable refers to
freshArr == CHOOSE i \in ArrIds :
    /\ \A s \in Slots : b[s].queries.ptr # i
    /\ \A j \in ArrIds : (\A s \in Slots : b[s].queries.ptr # j) => i <= j

freshMap == CHOOSE i \in MapIds :
    /\ \A s \in Slots : b[s].variables # i
    /\ \A j \in MapIds : (\A s \in Slots : b[s].variables # j) => i <= j

\* the elements a slice header denotes in heap h
elems(h, s) == [i \in 1..s.len |-> h[s.ptr][i]]

\* the contents of map m in map heap mh (a nil map reads as empty)
mapOf(mh, m) == IF m = nil THEN emptyMap ELSE mh[m]

\* capacity chosen by append when the backing array is full
growslice(oldCap, newLen) ==
    IF newLen > 2 * oldCap THEN newLen ELSE 2 * oldCap

\* append(s, item) on array heap h: [s |-> new slice header, h |-> new heap]
append(h, s, item) ==
    IF s.len < s.cap
      THEN [s |-> [s EXCEPT !.len = s.len + 1],
            h |-> [h EXCEPT ![s.ptr][s.len + 1] = item]]
      ELSE LET newcap == growslice(s.cap, s.len + 1)
               old == elems(h, s)
               p == freshArr
           IN [s |-> [ptr |-> p, len |-> s.len + 1, cap |-> newcap],
               h |-> [h EXCEPT ![p] =
                        [i \in 1..newcap |->
                            IF i <= s.len THEN old[i]
                            ELSE IF i = s.len + 1 THEN item
                            ELSE zeroItem]]]

\* ------------------------------------------------------------------ helpers
NameStart == {"_", "a", "b", "d", "p", "i", "w"}
NameChar == NameStart \cup {"0", "1", "2"}

\* end of the longest run of name characters starting at position i
RECURSIVE nameEnd(_, _)
nameEnd(q, i) ==
    IF i + 1 <= Len(q) /\ q[i + 1] \in NameChar THEN nameEnd(q, i + 1) ELSE i

\* regexVariableName.FindAllStringSubmatch scanning from position pos
RECURSIVE scanNames(_, _)
scanNames(q, pos) ==
    IF pos > Len(q) THEN <<>>
    ELSE IF q[pos] = "$" /\ pos + 1 <= Len(q) /\ q[pos + 1] \in NameStart
      THEN LET e == nameEnd(q, pos + 1)
           IN <<SubSeq(q, pos + 1, e)>> \o scanNames(q, e + 1)
      ELSE scanNames(q, pos + 1)

findAllVariableNames(query) == scanNames(query, 1)

sliceStringContains(slice, val) == \E i \in 1..Len(slice) : slice[i] = val

\* setMapValue(src, key, value) on map heap mh: [m |-> map id, mh |-> new heap]
setMapValue(mh, src, key, value) ==
    LET m == IF src = nil THEN freshMap ELSE src
        base == IF src = nil THEN emptyMap ELSE mh[src]
    IN [m |-> m,
        mh |-> [mh EXCEPT ![m] =
                  [k \in (DOMAIN base) \cup {key} |->
                      IF k = key THEN value ELSE base[k]]]]

\* mergeMap in which an entry already present wins over the argument's entry
mergeMapKeepsExisting(mh, src, dest) ==
    LET base == mapOf(mh, src)
        m == freshMap
    IN [m |-> m,
        mh |-> [mh EXCEPT ![m] =
                  [k \in (DOMAIN base) \cup (DOMAIN dest) |->
                      IF k \in DOMAIN base THEN base[k] ELSE dest[k]]]]

\* mergeMap(src, dest): a fresh map holding src's entries overridden by dest's
mergeMap(mh, src, dest) ==
    LET base == mapOf(mh, src)
        m == freshMap
    IN [m |-> m,
        mh |-> [mh EXCEPT ![m] =
                  [k \in (DOMAIN base) \cup (DOMAIN dest) |->
                      IF k \in DOMAIN dest THEN dest[k] ELSE base[k]]]]

\* ------------------------------------------------------------------ methods
\* Every method returns [b |-> the returned builder, arrays, maps |-> the heaps
\* after the call].

NewQueryBuilder ==
    [b |-> [queries |-> nilSlice, variables |-> freshMap],
     arrays |-> arrays,
     maps |-> [maps EXCEPT ![freshMap] = emptyMap]]

Query(x, query, binding) ==
    LET r == append(arrays, x.queries,
                    [query |-> query, binding |-> binding,
                     requiredVars |-> findAllVariableNames(query)])
    IN [b |-> [queries |-> r.s, variables |-> x.variables],
        arrays |-> r.h,
        maps |-> maps]

Variable(x, key, value) ==
    LET r == setMapValue(maps, x.variables, key, value)
    IN [b |-> [queries |-> x.queries, variables |-> r.m],
        arrays |-> arrays,
        maps |-> r.mh]

Variables(x, variables) ==
    LET r == mergeMap(maps, x.variables, variables)
    IN [b |-> [queries |-> x.queries, variables |-> r.m],
        arrays |-> arrays,
        maps |-> r.mh]

\* the loop of Remove from the i-th query on; acc = [s, h, vars]
RECURSIVE removeLoop(_, _, _, _, _)
removeLoop(x, query, extra, i, acc) ==
    IF i > x.queries.len THEN acc
    ELSE LET q == arrays[x.queries.ptr][i]
             bv == mapOf(maps, x.variables)
         IN IF q.query = query \/ sliceStringContains(extra, q.query)
              THEN removeLoop(x, query, extra, i + 1, acc)
              ELSE LET r == append(acc.h, acc.s, q)
                       kept == IF Cardinality(DOMAIN bv) > 0
                                 THEN {q.requiredVars[j] : j \in 1..Len(q.requiredVars)}
                                        \cap DOMAIN bv
                                 ELSE {}
                       nv == [k \in (DOMAIN acc.vars) \cup kept |-> bv[k]]
                   IN removeLoop(x, query, extra, i + 1,
                                 [s |-> r.s, h |-> r.h, vars |-> nv])

\* Remove that also drops every variable a removed query requires, even when a
\* query that stays requires it too
RemoveDropsShared(x, query, extra) ==
    LET r == removeLoop(x, query, extra, 1,
                        [s |-> nilSlice, h |-> arrays, vars |-> emptyMap])
        qs == elems(arrays, x.queries)
        gone == {i \in 1..Len(qs) :
                    qs[i].query = query \/ sliceStringContains(extra, qs[i].query)}
        dropped == UNION {{qs[i].requiredVars[j] : j \in 1..Len(qs[i].requiredVars)} : i \in gone}
    IN [b |-> [queries |-> r.s, variables |-> freshMap],
        arrays |-> r.h,
        maps |-> [maps EXCEPT ![freshMap] =
                    [k \in (DOMAIN r.vars) \ dropped |-> r.vars[k]]]]

Remove(x, query, extra) ==
    LET r == removeLoop(x, query, extra, 1,
                        [s |-> nilSlice, h |-> arrays, vars |-> emptyMap])
    IN [b |-> [queries |-> r.s, variables |-> freshMap],
        arrays |-> r.h,
        maps |-> [maps EXCEPT ![freshMap] = r.vars]]

\* the loop of RemoveQuery from the i-th query on; acc = [s, h]
RECURSIVE removeQueryLoop(_, _, _, _, _)
removeQueryLoop(x, query, extra, i, acc) ==
    IF i > x.queries.len THEN acc
    ELSE LET q == arrays[x.queries.ptr][i]
         IN IF q.query # query /\ ~sliceStringContains(extra, q.query)
              THEN LET r == append(acc.h, acc.s, q)
                   IN removeQueryLoop(x, query, extra, i + 1, [s |-> r.s, h |-> r.h])
              ELSE removeQueryLoop(x, query, extra, i + 1, acc)

\* the loop of a RemoveQuery that stops matching after its first match;
\* acc = [s, h], found = a query was already removed
RECURSIVE removeFirstLoop(_, _, _, _, _, _)
removeFirstLoop(x, query, extra, i, acc, found) ==
    IF i > x.queries.len THEN acc
    ELSE LET q == arrays[x.queries.ptr][i]
         IN IF found \/ (q.query # query /\ ~sliceStringContains(extra, q.query))
              THEN LET r == append(acc.h, acc.s, q)
                   IN removeFirstLoop(x, query, extra, i + 1, [s |-> r.s, h |-> r.h], found)
              ELSE removeFirstLoop(x, query, extra, i + 1, acc, TRUE)

\* RemoveQuery that removes only the first query whose text matches
RemoveQueryFirstMatch(x, query, extra) ==
    LET r == removeFirstLoop(x, query, extra, 1, [s |-> nilSlice, h |-> arrays], FALSE)
    IN [b |-> [queries |-> r.s, variables |-> x.variables],
        arrays |-> r.h,
        maps |-> maps]

\* RemoveQuery that cleans the variables as Remove does
RemoveQueryCleansVariables(x, query, extra) == Remove(x, query, extra)

RemoveQuery(x, query, extra) ==
    LET r == removeQueryLoop(x, query, extra, 1, [s |-> nilSlice, h |-> arrays])
    IN [b |-> [queries |-> r.s, variables |-> x.variables],
        arrays |-> r.h,
        maps |-> maps]

\* RemoveVariable that removes key alone and ignores the extra names
RemoveVariableKeyOnly(x, key, extra) ==
    LET bv == mapOf(maps, x.variables)
        keep == {k \in DOMAIN bv : k # key}
    IN [b |-> [queries |-> x.queries, variables |-> freshMap],
        arrays |-> arrays,
        maps |-> [maps EXCEPT ![freshMap] = [k \in keep |-> bv[k]]]]

RemoveVariable(x, key, extra) ==
    LET bv == mapOf(maps, x.variables)
        keep == {k \in DOMAIN bv : k # key /\ ~sliceStringContains(extra, k)}
    IN [b |-> [queries |-> x.queries, variables |-> freshMap],
        arrays |-> arrays,
        maps |-> [maps EXCEPT ![freshMap] = [k \in keep |-> bv[k]]]]

\* concatenation of the requiredVars of the queries qs
RECURSIVE collectRequired(_, _)
collectRequired(qs, i) ==
    IF i > Len(qs) THEN <<>>
    ELSE qs[i].requiredVars \o collectRequired(qs, i + 1)

errBuildQueryRequired == "no graphql query to be built"
errMismatched == "mismatched variables"

\* Build without the comparison of the two lengths: only the membership loop
BuildMembershipOnly(x) ==
    LET qs == elems(arrays, x.queries)
        bv == mapOf(maps, x.variables)
        requiredVars == collectRequired(qs, 1)
    IN IF x.queries.len = 0
         THEN [err |-> errBuildQueryRequired, query |-> <<>>, variables |-> emptyMap,
               want |-> <<>>, got |-> {}]
       ELSE IF \E i \in 1..Len(requiredVars) : requiredVars[i] \notin DOMAIN bv
         THEN [err |-> errMismatched, query |-> <<>>, variables |-> emptyMap,
               want |-> requiredVars, got |-> DOMAIN bv]
       ELSE [err |-> "nil",
             query |-> [i \in 1..Len(qs) |-> <<qs[i].query, qs[i].binding>>],
             variables |-> bv, want |-> <<>>, got |-> {}]

\* Build with the variable check made before the check for queries
BuildMismatchFirst(x) ==
    LET qs == elems(arrays, x.queries)
        bv == mapOf(maps, x.variables)
        requiredVars == collectRequired(qs, 1)
    IN IF Cardinality(DOMAIN bv) # Len(requiredVars)
            \/ \E i \in 1..Len(requiredVars) : requiredVars[i] \notin DOMAIN bv
         THEN [err |-> errMismatched, query |-> <<>>, variables |-> emptyMap,
               want |-> requiredVars, got |-> DOMAIN bv]
       ELSE IF x.queries.len = 0
         THEN [err |-> errBuildQueryRequired, query |-> <<>>, variables |-> emptyMap,
               want |-> <<>>, got |-> {}]
       ELSE [err |-> "nil",
             query |-> [i \in 1..Len(qs) |-> <<qs[i].query, qs[i].binding>>],
             variables |-> bv, want |-> <<>>, got |-> {}]

\* Build: [err, query (the QueryBinding list), variables, want, got]
Build(x) ==
    LET qs == elems(arrays, x.queries)
        bv == mapOf(maps, x.variables)
        requiredVars == collectRequired(qs, 1)
        variableLength == Cardinality(DOMAIN bv)
        requiredVariableLength == Len(requiredVars)
        isMismatchedVariables ==
            \/ variableLength # requiredVariableLength
            \/ /\ requiredVariableLength > 0
               /\ \E i \in 1..Len(requiredVars) : requiredVars[i] \notin DOMAIN bv
    IN IF x.queries.len = 0
         THEN [err |-> errBuildQueryRequired, query |-> <<>>, variables |-> emptyMap,
               want |-> <<>>, got |-> {}]
       ELSE IF isMismatchedVariables
         THEN [err |-> errMismatched, query |-> <<>>, variables |-> emptyMap,
               want |-> requiredVars, got |-> DOMAIN bv]
       ELSE [err |-> "nil",
             query |-> [i \in 1..Len(qs) |-> <<qs[i].query, qs[i].binding>>],
             variables |-> bv, want |-> <<>>, got |-> {}]

\* ------------------------------------------------------------------ state machine
\* what a caller can observe of builder value x: its queries and its variables
View(x) == [queries |-> elems(arrays, x.queries), variables |-> mapOf(maps, x.variables)]

\* arrays and maps no caller variable refers to are reclaimed
collectArrays(nb, h) ==
    [i \in ArrIds |-> IF \E s \in Slots : nb[s].queries.ptr = i THEN h[i] ELSE <<>>]

collectMaps(nb, mh) ==
    [i \in MapIds |-> IF \E s \in Slots : nb[s].variables = i THEN mh[i] ELSE emptyMap]

\* dst = <the call's result r>
Assign(dst, r) ==
    LET nb == [b EXCEPT ![dst] = r.b]
    IN /\ b' = nb
       /\ arrays' = collectArrays(nb, r.arrays)
       /\ maps' = collectMaps(nb, r.maps)

noCall == [op |-> "init", src |-> "builder", dst |-> "builder", arg |-> <<>>, out |-> <<>>]

Init ==
    /\ b = [s \in Slots |-> QueryBuilder]
    /\ arrays = [i \in ArrIds |-> <<>>]
    /\ maps = [i \in MapIds |-> emptyMap]
    /\ last = noCall
    /\ nops = 0

Called(op, src, dst, arg) ==
    /\ nops' = nops + 1
    /\ last' = [op |-> op, src |-> src, dst |-> dst, arg |-> arg, out |-> <<>>]

DoNewQueryBuilder(dst) ==
    /\ Called("NewQueryBuilder", dst, dst, <<>>)
    /\ Assign(dst, NewQueryBuilder)

DoQuery(src, dst, query, binding) ==
    /\ Called("Query", src, dst, <<query, binding>>)
    /\ Assign(dst, Query(b[src], query, binding))

DoVariable(src, dst, key, value) ==
    /\ Called("Variable", src, dst, <<key, value>>)
    /\ Assign(dst, Variable(b[src], key, value))

DoVariables(src, dst, variables) ==
    /\ Called("Variables", src, dst, <<variables>>)
    /\ Assign(dst, Variables(b[src], variables))

DoRemove(src, dst, query, extra) ==
    /\ Called("Remove", src, dst, <<query, extra>>)
    /\ Assign(dst, Remove(b[src], query, extra))

DoRemoveQuery(src, dst, query, extra) ==
    /\ Called("RemoveQuery", src, dst, <<query, extra>>)
    /\ Assign(dst, RemoveQuery(b[src], query, extra))

DoRemoveVariable(src, dst, key, extra) ==
    /\ Called("RemoveVariable", src, dst, <<key, extra>>)
    /\ Assign(dst, RemoveVariable(b[src], key, extra))

DoBuild(src) ==
    /\ nops' = nops + 1
    /\ last' = [op |-> "Build", src |-> src, dst |-> src, arg |-> <<>>, out |-> Build(b[src])]
    /\ UNCHANGED <<b, arrays, maps>>

\* a run makes at most n calls
Within(n) == nops < n

\* every call is made on the builder the caller chains on
Next ==
    \/ \E d \in Slots : Within(MaxOps) /\ DoNewQueryBuilder(d)
    \/ \E d \in Slots, a \in QueryArgs :
          Within(MaxOps) /\ DoQuery("builder", d, a[1], a[2])
    \/ \E d \in Slots, k \in Names, v \in Values :
          Within(MaxOps) /\ DoVariable("builder", d, k, v)
    \/ \E d \in Slots, m \in ArgMaps :
          Within(MaxOps) /\ DoVariables("builder", d, m)
    \/ \E d \in Slots, a \in RemoveArgs :
          Within(MaxOps) /\ DoRemove("builder", d, a[1], a[2])
    \/ \E d \in Slots, a \in RemoveArgs :
          Within(MaxOps) /\ DoRemoveQuery("builder", d, a[1], a[2])
    \/ \E d \in Slots, a \in RemoveVariableArgs :
          Within(MaxOps) /\ DoRemoveVariable("builder", d, a[1], a[2])
    \/ \E s \in Slots : Within(MaxOps) /\ DoBuild(s)

Spec == Init /\ [][Next]_vars

\* chains of Query calls, with RemoveQuery and Build: longer runs of fewer methods
NextChain ==
    \/ \E d \in Slots, a \in QueryArgs :
          Within(MaxChainOps) /\ DoQuery("builder", d, a[1], a[2])
    \/ \E d \in Slots, a \in RemoveArgs :
          Within(MaxChainOps) /\ DoRemoveQuery("builder", d, a[1], a[2])
    \/ \E s \in Slots : Within(MaxChainOps) /\ DoBuild(s)

SpecChain == Init /\ [][NextChain]_vars

\* ------------------------------------------------------------------ properties
\* the set of elements of a sequence
Range(seq) == {seq[i] : i \in 1..Len(seq)}

\* the builder value of caller variable s, as the caller observes it
Seen(s) == View(b[s])

\* the names the queries qs require, in order, with repetitions
Required(qs) == collectRequired(qs, 1)

\* the item Query adds for (query, binding)
ItemOf(query, binding) ==
    [query |-> query, binding |-> binding, requiredVars |-> findAllVariableNames(query)]

\* C1: Variable(k, v) returns a new builder and leaves the receiver, and every
\* other builder the caller holds, as it was: same queries, same variables.
C1_VariableLeavesOthers ==
    [][last'.op = "Variable" =>
         \A s \in Slots : s # last'.dst => Seen(s)' = Seen(s)]_vars

\* C2: b.Query(t, x) returns b's fragments followed by (t, x) and changes the
\* fragments of no other builder derived from b.
C2_QuerySiblingsIndependent ==
    [][last'.op = "Query" =>
         \A s, d \in Slots :
            (s = last'.src /\ d = last'.dst) =>
               /\ Seen(d)'.queries =
                     Append(Seen(s).queries, ItemOf(last'.arg[1], last'.arg[2]))
               /\ \A o \in Slots : o # d => Seen(o)'.queries = Seen(o).queries]_vars

\* C3: Build on a builder with zero fragments fails with the no-query error,
\* whatever its variables are.
C3_BuildNoQuery ==
    (last.op = "Build" /\ Len(Seen(last.src).queries) = 0)
        => last.out.err = errBuildQueryRequired

\* C3 witness: Build was called on a builder whose fragments were all removed
\* (the builder it was derived from still holds one) and which still declares a
\* variable, and reported the no-query error.
C3_Witness ==
    /\ last.op = "Build"
    /\ last.src = "snapshot"
    /\ Len(Seen("snapshot").queries) = 0
    /\ Len(Seen("builder").queries) > 0
    /\ DOMAIN Seen("snapshot").variables # {}
    /\ last.out.err = errBuildQueryRequired

\* the result Build gives on success for the observed builder v
Built(v) ==
    [err |-> "nil",
     query |-> [i \in 1..Len(v.queries) |-> <<v.queries[i].query, v.queries[i].binding>>],
     variables |-> v.variables, want |-> <<>>, got |-> {}]

\* C4: for a non-empty sequence of fragments with pairwise disjoint variable
\* needs and variables whose keys are exactly the names the fragments require,
\* Build succeeds and returns each (text, binding) in insertion order and the
\* variables.
C4_BuildRoundTrip ==
    LET v == Seen(last.src)
        qs == v.queries
    IN (/\ last.op = "Build"
        /\ Len(qs) > 0
        /\ \A i, j \in 1..Len(qs) :
              i # j => Range(qs[i].requiredVars) \cap Range(qs[j].requiredVars) = {}
        /\ DOMAIN v.variables = Range(Required(qs)))
       => last.out = Built(v)

\* C5: whenever Build succeeds, the declared variables are exactly the required
\* names; and with x required twice and x and y declared, Build reports
\* mismatched variables.
C5_BuildExactMatch ==
    LET v == Seen(last.src)
        req == Required(v.queries)
    IN last.op = "Build" =>
         /\ last.out.err = "nil" => DOMAIN v.variables = Range(req)
         /\ (/\ Len(req) = 2
             /\ req[1] = req[2]
             /\ Cardinality(DOMAIN v.variables) = 2
             /\ req[1] \in DOMAIN v.variables)
            => last.out.err = errMismatched

\* the names a call of RemoveVariable or Remove/RemoveQuery was given
Given(arg) == {arg[1]} \cup Range(arg[2])

\* C6: on a builder on which Build succeeds, (a) RemoveVariable of a variable
\* some fragment requires and (b) Variable with a new key no fragment references
\* both make Build on the returned builder fail with mismatched variables.
C6_MismatchDetected ==
    [][\A s, d \in Slots :
         (last'.src = s /\ last'.dst = d /\ Build(b[s]).err = "nil") =>
            /\ (/\ last'.op = "RemoveVariable"
                /\ Given(last'.arg) \cap Range(Required(Seen(s).queries)) # {})
               => Build(b[d])'.err = errMismatched
            /\ (/\ last'.op = "Variable"
                /\ last'.arg[1] \notin DOMAIN Seen(s).variables
                /\ last'.arg[1] \notin Range(Required(Seen(s).queries)))
               => Build(b[d])'.err = errMismatched]_vars

\* C6 witness: snapshot = builder.RemoveVariable(n) with n required by a
\* fragment; Build succeeds on builder and reports mismatched variables on
\* snapshot.
C6_Witness ==
    /\ last.op = "RemoveVariable"
    /\ last.src = "builder"
    /\ last.dst = "snapshot"
    /\ Build(b["builder"]).err = "nil"
    /\ last.arg[1] \in Range(Required(Seen("builder").queries))
    /\ Build(b["snapshot"]).err = errMismatched

\* the positions of the fragments qs that a removal of the texts gone keeps
Surviving(qs, gone) == {i \in 1..Len(qs) : qs[i].query \notin gone}

\* the names the fragments of qs at positions I require
Needs(qs, I) == UNION {Range(qs[i].requiredVars) : i \in I}

\* the texts of the fragments qs
TextsOf(qs) == [i \in 1..Len(qs) |-> qs[i].query]

\* C7: after Remove, a declared name that a surviving fragment requires is still
\* declared with its value, and one required by a removed fragment and by no
\* surviving fragment is no longer declared; so with A requiring i, B requiring
\* i and w and both set, Remove(A) gives a builder on which Build succeeds
\* with i and w.
C7_RemoveScoping ==
    [][last'.op = "Remove" =>
         \A s, d \in Slots :
            (last'.src = s /\ last'.dst = d) =>
               LET qs == Seen(s).queries
                   vs == Seen(s).variables
                   keep == Surviving(qs, Given(last'.arg))
                   needKept == Needs(qs, keep)
                   needGone == Needs(qs, (1..Len(qs)) \ keep)
               IN /\ \A n \in DOMAIN vs :
                       /\ n \in needKept =>
                             /\ n \in DOMAIN Seen(d)'.variables
                             /\ Seen(d)'.variables[n] = vs[n]
                       /\ n \in needGone \ needKept =>
                             n \notin DOMAIN Seen(d)'.variables
                  /\ (/\ TextsOf(qs) = <<TextA, TextB>>
                      /\ DOMAIN vs = {NameI, NameW}
                      /\ last'.arg = <<TextA, <<>>>>)
                     => /\ Build(b[d])'.err = "nil"
                        /\ Build(b[d])'.variables = vs]_vars

\* C7 witness: builder holds A and B with i and w set, snapshot =
\* builder.Remove(A) holds B with i and w, and Build succeeds on it.
C7_Witness ==
    /\ last.op = "Remove"
    /\ last.src = "builder"
    /\ last.dst = "snapshot"
    /\ last.arg = <<TextA, <<>>>>
    /\ TextsOf(Seen("builder").queries) = <<TextA, TextB>>
    /\ DOMAIN Seen("builder").variables = {NameI, NameW}
    /\ TextsOf(Seen("snapshot").queries) = <<TextB>>
    /\ Seen("snapshot").variables = Seen("builder").variables
    /\ Build(b["snapshot"]).err = "nil"

\* C8: Remove with texts that match no fragment returns a builder with the same
\* fragments and the same variables as the receiver.
C8_RemoveNoMatchIsNoOp ==
    [][last'.op = "Remove" =>
         \A s, d \in Slots :
            (/\ last'.src = s
             /\ last'.dst = d
             /\ Surviving(Seen(s).queries, Given(last'.arg)) = 1..Len(Seen(s).queries))
            => Seen(d)' = Seen(s)]_vars

\* a removal of the texts gone takes away a fragment of v whose sole variable
\* is declared and required by no fragment that stays
Orphans(v, gone) ==
    LET keep == Surviving(v.queries, gone)
    IN \E i \in (1..Len(v.queries)) \ keep :
          /\ Cardinality(Range(v.queries[i].requiredVars)) = 1
          /\ Range(v.queries[i].requiredVars) \subseteq DOMAIN v.variables
          /\ Range(v.queries[i].requiredVars) \cap Needs(v.queries, keep) = {}

Without(vs, gone) == [k \in (DOMAIN vs) \ gone |-> vs[k]]

\* what RemoveVariable does to the builders, common to C10 as stated and amended:
\* the result holds the receiver's variables without the given names and the
\* receiver's fragments, the receiver is unchanged, and if a fragment requires
\* a removed name Build on the result fails with mismatched variables.
RemoveVariableFrame(s, d) ==
    LET v == Seen(s)
        gone == Given(last'.arg)
    IN /\ Seen(d)'.variables = Without(v.variables, gone)
       /\ Seen(d)'.queries = v.queries
       /\ s # d => Seen(s)' = v
       /\ gone \cap Range(Required(v.queries)) # {}
            => Build(b[d])'.err = errMismatched

Override(vs, m) ==
    [k \in (DOMAIN vs) \cup (DOMAIN m) |-> IF k \in DOMAIN m THEN m[k] ELSE vs[k]]

\* C11: Variable(k, v) and Variables(m) are last-write-wins: the returned builder
\* maps k to v (every key of m to m's value) and every other key of the
\* receiver to its previous value; and a key set to the null value is declared
\* for Build: Build on the returned builder returns it among the variables, or
\* lists it among the declared names of the mismatched-variables error.
C11_LastWriteWins ==
    [][\A s, d \in Slots :
         (last'.src = s /\ last'.dst = d) =>
            /\ last'.op = "Variable" =>
                  /\ Seen(d)'.variables =
                        Override(Seen(s).variables,
                                 [k \in {last'.arg[1]} |-> last'.arg[2]])
                  /\ (last'.arg[2] = "null" /\ Len(Seen(d)'.queries) > 0) =>
                        \/ /\ Build(b[d])'.err = "nil"
                           /\ last'.arg[1] \in DOMAIN Build(b[d])'.variables
                           /\ Build(b[d])'.variables[last'.arg[1]] = "null"
                        \/ /\ Build(b[d])'.err = errMismatched
                           /\ last'.arg[1] \in Build(b[d])'.got
            /\ last'.op = "Variables" =>
                  Seen(d)'.variables = Override(Seen(s).variables, last'.arg[1])]_vars

\* C11 witness: builder declares i with value "1"; snapshot =
\* builder.Variables(m) with m setting i to null and adding w: snapshot holds
\* m's values, builder keeps its own, and Build succeeds on snapshot with i
\* declared as null.
C11_Witness ==
    /\ last.op = "Variables"
    /\ last.src = "builder"
    /\ last.dst = "snapshot"
    /\ NameI \in DOMAIN Seen("builder").variables
    /\ Seen("builder").variables[NameI] = "1"
    /\ NameI \in DOMAIN last.arg[1]
    /\ last.arg[1][NameI] = "null"
    /\ Seen("snapshot").variables = Override(Seen("builder").variables, last.arg[1])
    /\ Build(b["snapshot"]).err = "nil"
    /\ Build(b["snapshot"]).variables[NameI] = "null"

\* the fragments of qs at the positions I, in their order in qs
RECURSIVE Pick(_, _, _)
Pick(qs, I, i) ==
    IF i > Len(qs) THEN <<>>
    ELSE (IF i \in I THEN <<qs[i]>> ELSE <<>>) \o Pick(qs, I, i + 1)

\* C12: Remove and RemoveQuery remove every fragment whose text is the given
\* text or one of the extra texts, not only the first such fragment, and the
\* fragments that stay keep their relative order, texts and bindings.
C12_RemoveAllMatching ==
    [][last'.op \in {"Remove", "RemoveQuery"} =>
         \A s, d \in Slots :
            (last'.src = s /\ last'.dst = d) =>
               Seen(d)'.queries =
                  Pick(Seen(s).queries,
                       Surviving(Seen(s).queries, Given(last'.arg)), 1)]_vars

\* C12 witness: builder holds two fragments with the removed text and one with
\* another text; snapshot, made from it by Remove or RemoveQuery, holds exactly
\* the other fragment.
C12_Witness ==
    LET qs == Seen("builder").queries
        keep == Surviving(qs, Given(last.arg))
    IN /\ last.op \in {"Remove", "RemoveQuery"}
       /\ last.src = "builder"
       /\ last.dst = "snapshot"
       /\ Cardinality((1..Len(qs)) \ keep) >= 2
       /\ keep # {}
       /\ Seen("snapshot").queries = Pick(qs, keep, 1)

====
